---- MODULE Spec2Model ----
(***************************************************************************)
(* Model of cooky's Cookie (src/src/lib.rs): one packed text buffer plus   *)
(* the byte offsets of its segments, edited in place by the setters.       *)
(*                                                                         *)
(* Text is a sequence of one-character strings; a byte offset n is the     *)
(* position after the n-th character (all modelled text is ASCII).         *)
(* Option<T> is a sequence: None is << >>, Some(x) is <<x>>.               *)
(***************************************************************************)
EXTENDS Integers, Sequences, FiniteSets, TLC

(***************************************************************************)
(* Bounds of the model.                                                    *)
(***************************************************************************)
\* width of the whitespace padding put around the texts passed to setters
MaxPad == 1
\* number of distinct non-zero Max-Age values passed to set_max_age
MaxAges == 2

(***************************************************************************)
(* Option                                                                  *)
(***************************************************************************)
None == << >>
Some(x) == <<x>>
is_some(o) == o # None
is_none(o) == o = None
unwrap(o) == o[1]

(***************************************************************************)
(* Program constants (lib.rs lines 9-19)                                   *)
(***************************************************************************)
DOMAIN_PREFIX == <<";"," ","D","o","m","a","i","n","=">>
PATH_PREFIX == <<";"," ","P","a","t","h","=">>
MAX_AGE_PREFIX == <<";"," ","M","a","x","-","A","g","e","=">>
SECURE_ATTR == <<";"," ","S","e","c","u","r","e">>
HTTPONLY_ATTR == <<";"," ","H","t","t","p","O","n","l","y">>
EXPIRES_PREFIX == <<";"," ","E","x","p","i","r","e","s","=">>
EQ_SIGN == <<"=">>

\* A Tm is the instant it denotes and the UTC offset it is expressed in.
EARLIEST_TM == [instant |-> "1900-01-01T00:00:00", tm_utcoff |-> 0]

(***************************************************************************)
(* External collaborators: str::trim, format!("{}", u64), Tm::to_utc and   *)
(* Tm::rfc822, modelled by what they compute.                              *)
(***************************************************************************)
IsWs(ch) == ch = " "

RECURSIVE trim_start(_)
trim_start(s) ==
    IF s # << >> /\ IsWs(Head(s)) THEN trim_start(Tail(s)) ELSE s

RECURSIVE trim_end(_)
trim_end(s) ==
    IF s # << >> /\ IsWs(s[Len(s)]) THEN trim_end(SubSeq(s, 1, Len(s) - 1)) ELSE s

\* trim that strips only the leading whitespace
trim_leading_only(s) == trim_start(s)

trim(s) == trim_end(trim_start(s))

DigitChar(d) == <<"0","1","2","3","4","5","6","7","8","9">>[d + 1]

\* format!("{}", n) for an unsigned n: decimal, no leading zeros
RECURSIVE format_u64(_)
format_u64(n) ==
    IF n < 10 THEN <<DigitChar(n)>>
    ELSE format_u64(n \div 10) \o <<DigitChar(n % 10)>>

\* Tm::to_utc: the same instant expressed at offset 0
to_utc(tm) ==
    IF tm.tm_utcoff = 0 THEN tm ELSE [instant |-> tm.instant, tm_utcoff |-> 0]

\* format!("{}", tm.rfc822()) of a UTC Tm
rfc822(tm) ==
    CASE tm.instant = "2012-03-22T14:53:18" ->
           <<"T","h","u",","," ","2","2"," ","M","a","r"," ","2","0","1","2"," ",
             "1","4",":","5","3",":","1","8"," ","G","M","T">>
      [] tm.instant = "1900-01-01T00:00:00" ->
           <<"S","u","n",","," ","0","1"," ","J","a","n"," ","1","9","0","0"," ",
             "0","0",":","0","0",":","0","0"," ","G","M","T">>

(***************************************************************************)
(* String primitives: slicing, truncate, drain.  A slice or drain whose    *)
(* range is not inside the buffer panics; String::truncate past the end    *)
(* does nothing.                                                           *)
(***************************************************************************)
PanicStr == <<"#PANIC#">>

range_ok(s, from, to) == from <= to /\ to <= Len(s)

\* RangeArg::slice_of: &s[from..to], &s[from..], &s[..to]
slice_of(s, from, to) ==
    IF range_ok(s, from, to) THEN SubSeq(s, from + 1, to) ELSE PanicStr

truncate(s, new_len) ==
    IF new_len <= Len(s) THEN SubSeq(s, 1, new_len) ELSE s

drain(s, from, to) ==
    SubSeq(s, 1, from) \o SubSeq(s, to + 1, Len(s))

\* a captured suffix: None when empty
opt_str(s) == IF Len(s) = 0 THEN None ELSE Some(s)

\* push_str of an optional suffix
push_opt(s, suffix) == IF is_some(suffix) THEN s \o unwrap(suffix) ELSE s

\* adjust: *index -= old; *index += new.  The subtraction underflows (and a
\* build with overflow checks panics) when index < old.
adjust_ok(index, old) == index >= old

\* adjust with the shift left out
adjust_no_shift(index, old, new) == index

adjust(index, old, new) == (index - old) + new

adjust_opt_ok(o, old) == is_none(o) \/ adjust_ok(unwrap(o), old)
adjust_opt(o, old, new) ==
    IF is_some(o) THEN Some(adjust(unwrap(o), old, new)) ELSE None

adjust_max_age_ok(o, old) == is_none(o) \/ adjust_ok(unwrap(o)[2], old)
\* adjust on the max_age pair that leaves its end offset where it was
adjust_max_age_unshifted(o, old, new) == o

adjust_max_age(o, old, new) ==
    IF is_some(o) THEN Some(<<unwrap(o)[1], adjust(unwrap(o)[2], old, new)>>)
    ELSE None

(***************************************************************************)
(* Cookie: construction and accessors                                      *)
(***************************************************************************)
\* new without the two trims (lines 71-72 left out)
new_untrimmed(name, value) ==
    LET s == name \o EQ_SIGN \o value
    IN  [serialization |-> s,
         name_end      |-> Len(name),
         value_end     |-> Len(s),
         domain_end    |-> None,
         path_end      |-> None,
         max_age       |-> None,
         secure        |-> FALSE,
         httponly      |-> FALSE,
         expires       |-> None,
         panicked      |-> FALSE]

new(name, value) ==
    LET n == trim(name)
        v == trim(value)
        s == n \o EQ_SIGN \o v
    IN  [serialization |-> s,
         name_end      |-> Len(n),
         value_end     |-> Len(s),
         domain_end    |-> None,
         path_end      |-> None,
         max_age       |-> None,
         secure        |-> FALSE,
         httponly      |-> FALSE,
         expires       |-> None,
         panicked      |-> FALSE]

\* a call that panics leaves the thread unwinding; nothing further is called
panic(c) == [c EXCEPT !.panicked = TRUE]

slice(c, from, to) == slice_of(c.serialization, from, to)
slice_from(c, from) == slice_of(c.serialization, from, Len(c.serialization))

as_str(c) == c.serialization

name(c) == slice(c, 0, c.name_end)

value_start(c) == c.name_end + Len(EQ_SIGN)

value(c) == slice(c, value_start(c), c.value_end)

cookie_pair(c) == <<name(c), value(c)>>

domain_value_start(c) ==
    IF is_some(c.domain_end) THEN Some(c.value_end + Len(DOMAIN_PREFIX)) ELSE None

domain_end_or_prior(c) ==
    IF is_some(c.domain_end) THEN unwrap(c.domain_end) ELSE c.value_end

domain(c) ==
    IF is_some(c.domain_end)
    THEN Some(slice(c, unwrap(domain_value_start(c)), unwrap(c.domain_end)))
    ELSE None

path_value_start(c) ==
    IF is_some(c.path_end) THEN Some(domain_end_or_prior(c) + Len(PATH_PREFIX)) ELSE None

path_end_or_prior(c) ==
    IF is_some(c.path_end) THEN unwrap(c.path_end) ELSE domain_end_or_prior(c)

path(c) ==
    IF is_some(c.path_end)
    THEN Some(slice(c, unwrap(path_value_start(c)), unwrap(c.path_end)))
    ELSE None

max_age(c) == IF is_some(c.max_age) THEN Some(unwrap(c.max_age)[1]) ELSE None

max_age_end_or_prior(c) ==
    IF is_some(c.max_age) THEN unwrap(c.max_age)[2] ELSE path_end_or_prior(c)

max_age_value_start(c) ==
    IF is_some(c.max_age) THEN Some(path_end_or_prior(c) + Len(MAX_AGE_PREFIX)) ELSE None

max_age_str(c) ==
    IF is_some(c.max_age)
    THEN Some(slice(c, unwrap(max_age_value_start(c)), unwrap(c.max_age)[2]))
    ELSE None

secure(c) == c.secure

secure_end_or_prior(c) ==
    max_age_end_or_prior(c) + (IF c.secure THEN Len(SECURE_ATTR) ELSE 0)

httponly(c) == c.httponly

httponly_end_or_prior(c) ==
    secure_end_or_prior(c) + (IF c.httponly THEN Len(HTTPONLY_ATTR) ELSE 0)

expires(c) == c.expires

expires_value_start(c) ==
    IF is_some(c.expires) THEN Some(httponly_end_or_prior(c) + Len(EXPIRES_PREFIX)) ELSE None

expires_str(c) ==
    IF is_some(c.expires)
    THEN Some(slice_from(c, unwrap(expires_value_start(c))))
    ELSE None

(***************************************************************************)
(* Cookie: setters.  Each takes the cookie before the call and yields the  *)
(* cookie after it.                                                        *)
(***************************************************************************)
\* set_name without the shift of the Max-Age end (lines 109-111 left out)
set_name_max_age_unshifted(c, name_arg) ==
    LET nm           == trim(name_arg)
        old_name_end == c.name_end
        new_name_end == Len(nm)
    IN  [c EXCEPT
           !.name_end      = new_name_end,
           !.value_end     = adjust(@, old_name_end, new_name_end),
           !.domain_end    = adjust_opt(@, old_name_end, new_name_end),
           !.path_end      = adjust_opt(@, old_name_end, new_name_end),
           !.serialization = nm \o slice_from(c, old_name_end)]

set_name(c, name_arg) ==
    LET nm           == trim(name_arg)
        old_name_end == c.name_end
        new_name_end == Len(nm)
    IN  IF \/ ~adjust_ok(c.value_end, old_name_end)
           \/ ~adjust_opt_ok(c.domain_end, old_name_end)
           \/ ~adjust_opt_ok(c.path_end, old_name_end)
           \/ ~adjust_max_age_ok(c.max_age, old_name_end)
           \/ old_name_end > Len(c.serialization)
        THEN panic(c)
        ELSE [c EXCEPT
                !.name_end      = new_name_end,
                !.value_end     = adjust(@, old_name_end, new_name_end),
                !.domain_end    = adjust_opt(@, old_name_end, new_name_end),
                !.path_end      = adjust_opt(@, old_name_end, new_name_end),
                !.max_age       = adjust_max_age(@, old_name_end, new_name_end),
                !.serialization = nm \o slice_from(c, old_name_end)]

set_value(c, value_arg) ==
    LET v             == trim(value_arg)
        old_value_end == c.value_end
        suffix        == opt_str(slice_from(c, old_value_end))
        written_buf   == truncate(c.serialization, value_start(c)) \o v
        new_value_end == Len(written_buf)
    IN  IF \/ old_value_end > Len(c.serialization)
           \/ ~adjust_opt_ok(c.domain_end, old_value_end)
           \/ ~adjust_opt_ok(c.path_end, old_value_end)
           \/ ~adjust_max_age_ok(c.max_age, old_value_end)
        THEN panic(c)
        ELSE [c EXCEPT
                !.serialization = push_opt(written_buf, suffix),
                !.value_end     = new_value_end,
                !.domain_end    = adjust_opt(@, old_value_end, new_value_end),
                !.path_end      = adjust_opt(@, old_value_end, new_value_end),
                !.max_age       = adjust_max_age(@, old_value_end, new_value_end)]

\* truncate_and_take: the text from take_from on (None when empty), and the
\* buffer cut at truncate_from
truncate_and_take(s, truncate_from, take_from) ==
    [buf   |-> truncate(s, truncate_from),
     taken |-> IF take_from < Len(s) THEN Some(SubSeq(s, take_from + 1, Len(s))) ELSE None,
     panic |-> take_from > Len(s)]

take(s, from) == truncate_and_take(s, from, from)

\* set_attr_value without the arm for an absent attribute and an empty new
\* value (line 417 left out): the insert arm takes the call
set_attr_value_no_noop_arm(s, attr_name, new_value, old_value_start, old_value_end, preceding_end) ==
    IF is_some(old_value_start) /\ Len(new_value) = 0
    THEN [buf |-> drain(s, preceding_end, unwrap(old_value_end)),
          end |-> None, suffix |-> None,
          panic |-> ~range_ok(s, preceding_end, unwrap(old_value_end))]
    ELSE IF is_some(old_value_start)
    THEN LET t   == truncate_and_take(s, unwrap(old_value_start), unwrap(old_value_end))
             buf == t.buf \o new_value
         IN  [buf |-> buf, end |-> Some(Len(buf)), suffix |-> t.taken, panic |-> t.panic]
    ELSE LET t   == take(s, preceding_end)
             buf == t.buf \o attr_name \o new_value
         IN  [buf |-> buf, end |-> Some(Len(buf)), suffix |-> t.taken, panic |-> t.panic]

\* set_attr_value: the buffer before the suffix is put back, the new end
\* offset and the captured suffix
set_attr_value(s, attr_name, new_value, old_value_start, old_value_end, preceding_end) ==
    IF is_some(old_value_start) /\ Len(new_value) = 0
    THEN IF range_ok(s, preceding_end, unwrap(old_value_end))
         THEN [buf |-> drain(s, preceding_end, unwrap(old_value_end)),
               end |-> None, suffix |-> None, panic |-> FALSE]
         ELSE [buf |-> s, end |-> None, suffix |-> None, panic |-> TRUE]
    ELSE IF is_some(old_value_start)
    THEN LET t   == truncate_and_take(s, unwrap(old_value_start), unwrap(old_value_end))
             buf == t.buf \o new_value
         IN  [buf |-> buf, end |-> Some(Len(buf)), suffix |-> t.taken, panic |-> t.panic]
    ELSE IF Len(new_value) = 0
    THEN [buf |-> s, end |-> None, suffix |-> None, panic |-> FALSE]
    ELSE LET t   == take(s, preceding_end)
             buf == t.buf \o attr_name \o new_value
         IN  [buf |-> buf, end |-> Some(Len(buf)), suffix |-> t.taken, panic |-> t.panic]

set_domain(c, domain_arg) ==
    LET d              == trim(domain_arg)
        old_domain_end == domain_end_or_prior(c)
        r              == set_attr_value(c.serialization, DOMAIN_PREFIX, d,
                                         domain_value_start(c), c.domain_end, c.value_end)
        c1             == [c EXCEPT !.serialization = push_opt(r.buf, r.suffix),
                                    !.domain_end    = r.end]
        new_domain_end == domain_end_or_prior(c1)
    IN  IF \/ r.panic
           \/ ~adjust_opt_ok(c.path_end, old_domain_end)
           \/ ~adjust_max_age_ok(c.max_age, old_domain_end)
        THEN panic(c)
        ELSE [c1 EXCEPT
                !.path_end = adjust_opt(@, old_domain_end, new_domain_end),
                !.max_age  = adjust_max_age(@, old_domain_end, new_domain_end)]

\* set_path that takes the end of the value, not of Domain, as the end of
\* the preceding segment (line 235)
set_path_after_value(c, path_arg) ==
    LET p            == trim(path_arg)
        old_path_end == path_end_or_prior(c)
        r            == set_attr_value(c.serialization, PATH_PREFIX, p,
                                       path_value_start(c), c.path_end,
                                       c.value_end)
        c1           == [c EXCEPT !.serialization = push_opt(r.buf, r.suffix),
                                  !.path_end      = r.end]
        new_path_end == path_end_or_prior(c1)
    IN  IF r.panic \/ ~adjust_max_age_ok(c.max_age, old_path_end)
        THEN panic(c)
        ELSE [c1 EXCEPT !.max_age = adjust_max_age(@, old_path_end, new_path_end)]

set_path(c, path_arg) ==
    LET p            == trim(path_arg)
        old_path_end == path_end_or_prior(c)
        r            == set_attr_value(c.serialization, PATH_PREFIX, p,
                                       path_value_start(c), c.path_end,
                                       domain_end_or_prior(c))
        c1           == [c EXCEPT !.serialization = push_opt(r.buf, r.suffix),
                                  !.path_end      = r.end]
        new_path_end == path_end_or_prior(c1)
    IN  IF r.panic \/ ~adjust_max_age_ok(c.max_age, old_path_end)
        THEN panic(c)
        ELSE [c1 EXCEPT !.max_age = adjust_max_age(@, old_path_end, new_path_end)]

\* the byte range set_max_age(0) drains: from the end of what precedes
\* Max-Age to the end of its digits
max_age_remove_digits_only(c) ==
    <<unwrap(max_age_value_start(c)), unwrap(c.max_age)[2]>>

max_age_remove_range(c) == <<path_end_or_prior(c), unwrap(c.max_age)[2]>>

set_max_age(c, max_age_arg) ==
    IF (IF is_some(c.max_age) THEN unwrap(c.max_age)[1] ELSE 0) = max_age_arg
    THEN c
    ELSE IF max_age_arg = 0
    THEN \* remove: drain(path_end_or_prior .. end of the digits)
         LET s == max_age_remove_range(c)[1]
             e == max_age_remove_range(c)[2]
         IN  IF ~range_ok(c.serialization, s, e) THEN panic(c)
             ELSE [c EXCEPT !.serialization = drain(c.serialization, s, e),
                            !.max_age       = None]
    ELSE IF is_some(c.max_age)
    THEN \* replace: the text taken after the old digits is dropped (line 288-289)
         LET t   == truncate_and_take(c.serialization,
                                      unwrap(max_age_value_start(c)),
                                      unwrap(c.max_age)[2])
             buf == t.buf \o format_u64(max_age_arg)
         IN  IF t.panic THEN panic(c)
             ELSE [c EXCEPT !.serialization = buf,
                            !.max_age       = Some(<<max_age_arg, Len(buf)>>)]
    ELSE \* insert after Path / Domain / value
         LET t   == take(c.serialization, path_end_or_prior(c))
             buf == t.buf \o MAX_AGE_PREFIX \o format_u64(max_age_arg)
         IN  IF t.panic THEN panic(c)
             ELSE [c EXCEPT !.serialization = push_opt(buf, t.taken),
                            !.max_age       = Some(<<max_age_arg, Len(buf)>>)]

\* set_flag_str: the buffer with the flag's token put in or taken out at
\* preceding_end
set_flag_str(s, preceding_end, flag_str, old_value, new_value) ==
    LET from   == preceding_end + (IF ~old_value THEN 0 ELSE Len(flag_str))
        suffix == IF from < Len(s) THEN Some(SubSeq(s, from + 1, Len(s))) ELSE None
        cut    == truncate(s, preceding_end)
        put    == IF new_value THEN cut \o flag_str ELSE cut
    IN  [buf |-> push_opt(put, suffix), panic |-> from > Len(s)]

set_secure(c, secure_arg) ==
    IF c.secure # secure_arg
    THEN LET r == set_flag_str(c.serialization, max_age_end_or_prior(c),
                               SECURE_ATTR, c.secure, secure_arg)
         IN  IF r.panic THEN panic(c)
             ELSE [c EXCEPT !.serialization = r.buf, !.secure = secure_arg]
    ELSE c

set_httponly(c, httponly_arg) ==
    IF c.httponly # httponly_arg
    THEN LET r == set_flag_str(c.serialization, secure_end_or_prior(c),
                               HTTPONLY_ATTR, c.httponly, httponly_arg)
         IN  IF r.panic THEN panic(c)
             ELSE [c EXCEPT !.serialization = r.buf, !.httponly = httponly_arg]
    ELSE c

\* the two early returns of set_expires: nothing stored and nothing given,
\* or the stored instant equal to the given one normalized to UTC
set_expires_returns_early(c, expires_arg) ==
    \/ is_none(c.expires) /\ is_none(expires_arg)
    \/ c.expires = (IF is_some(expires_arg)
                    THEN Some(to_utc(unwrap(expires_arg))) ELSE None)

set_expires(c, expires_arg) ==
    IF set_expires_returns_early(c, expires_arg)
    THEN c
    ELSE LET expires_utc == IF is_some(expires_arg)
                            THEN Some(to_utc(unwrap(expires_arg))) ELSE None
         IN  IF is_none(expires_utc)
             THEN [c EXCEPT
                     !.serialization = truncate(@, httponly_end_or_prior(c)),
                     !.expires       = expires_arg]
             ELSE LET head == IF is_none(c.expires)
                              THEN c.serialization \o EXPIRES_PREFIX
                              ELSE truncate(c.serialization,
                                            httponly_end_or_prior(c) + Len(EXPIRES_PREFIX))
                  IN  [c EXCEPT
                         !.serialization = head \o rfc822(unwrap(expires_utc)),
                         !.expires       = expires_arg]

expire(c) == set_expires(c, Some(EARLIEST_TM))

(***************************************************************************)
(* The caller: the texts, ages and instants it passes to the setters.      *)
(***************************************************************************)
Pad(k) == [i \in 1..k |-> " "]

\* each core bare and with whitespace before it, after it, and around it
Padded(cores) ==
    { Pad(l) \o core \o Pad(r) : core \in cores, l \in {0, MaxPad}, r \in {0, MaxPad} }

NameTexts == Padded({ << >>, <<"n","m">> })

AttrTexts == Padded({ << >>, <<"a">>, <<"b","c">> })

\* 0 clears Max-Age; the others have one and two digits
Ages == {0} \cup { 7 * k : k \in 1..MaxAges }

Tms == { [instant |-> "2012-03-22T14:53:18", tm_utcoff |-> 0],
         [instant |-> "2012-03-22T14:53:18", tm_utcoff |-> 3600] }

OptTms == {None} \cup { Some(tm) : tm \in Tms }

Calls ==
    [op : {"set_name", "set_value"}, arg : NameTexts]
      \cup [op : {"set_domain", "set_path"}, arg : AttrTexts]
      \cup [op : {"set_max_age"}, arg : Ages]
      \cup [op : {"set_secure", "set_httponly"}, arg : BOOLEAN]
      \cup [op : {"set_expires"}, arg : OptTms]
      \cup [op : {"expire"}, arg : {None}]

\* the cookie after the call
Apply(call, c) ==
    CASE call.op = "set_name"     -> set_name(c, call.arg)
      [] call.op = "set_value"    -> set_value(c, call.arg)
      [] call.op = "set_domain"   -> set_domain(c, call.arg)
      [] call.op = "set_path"     -> set_path(c, call.arg)
      [] call.op = "set_max_age"  -> set_max_age(c, call.arg)
      [] call.op = "set_secure"   -> set_secure(c, call.arg)
      [] call.op = "set_httponly" -> set_httponly(c, call.arg)
      [] call.op = "set_expires"  -> set_expires(c, call.arg)
      [] call.op = "expire"       -> expire(c)

(***************************************************************************)
(* State: the cookie, and the text the caller last wrote to each text      *)
(* field (what the accessors are expected to give back).                   *)
(***************************************************************************)
VARIABLES cookie, written

vars == <<cookie, written>>

opt_text(t) == IF Len(t) = 0 THEN None ELSE Some(t)

Init ==
    \E n \in NameTexts, v \in NameTexts :
        /\ cookie = new(n, v)
        /\ written = [name |-> trim(n), value |-> trim(v), domain |-> None,
                      path |-> None, max_age |-> None]

\* one call on the cookie; a panicked thread makes no further call
Step(call) ==
    /\ ~cookie.panicked
    /\ cookie' = Apply(call, cookie)

SetName ==
    \E x \in NameTexts :
        /\ Step([op |-> "set_name", arg |-> x])
        /\ written' = [written EXCEPT !.name = trim(x)]

SetValue ==
    \E x \in NameTexts :
        /\ Step([op |-> "set_value", arg |-> x])
        /\ written' = [written EXCEPT !.value = trim(x)]

SetDomain ==
    \E x \in AttrTexts :
        /\ Step([op |-> "set_domain", arg |-> x])
        /\ written' = [written EXCEPT !.domain = opt_text(trim(x))]

SetPath ==
    \E x \in AttrTexts :
        /\ Step([op |-> "set_path", arg |-> x])
        /\ written' = [written EXCEPT !.path = opt_text(trim(x))]

SetMaxAge ==
    \E n \in Ages :
        /\ Step([op |-> "set_max_age", arg |-> n])
        /\ written' = [written EXCEPT !.max_age = IF n = 0 THEN None ELSE Some(n)]

SetSecure ==
    \E b \in BOOLEAN :
        /\ Step([op |-> "set_secure", arg |-> b])
        /\ UNCHANGED written

SetHttponly ==
    \E b \in BOOLEAN :
        /\ Step([op |-> "set_httponly", arg |-> b])
        /\ UNCHANGED written

SetExpires ==
    \E e \in OptTms :
        /\ Step([op |-> "set_expires", arg |-> e])
        /\ UNCHANGED written

Expire ==
    /\ Step([op |-> "expire", arg |-> None])
    /\ UNCHANGED written

Next ==
    \/ SetName
    \/ SetValue
    \/ SetDomain
    \/ SetPath
    \/ SetMaxAge
    \/ SetSecure
    \/ SetHttponly
    \/ SetExpires
    \/ Expire

Spec == Init /\ [][Next]_vars

(***************************************************************************)
(* Properties                                                              *)
(***************************************************************************)
Live == ~cookie.panicked

seg(prefix, opt) == IF is_some(opt) THEN prefix \o unwrap(opt) ELSE << >>
flag(token, b) == IF b THEN token ELSE << >>

\* name=value and the Domain, Path and Max-Age segments, from the accessors
CanonicalHead(c) ==
    name(c) \o EQ_SIGN \o value(c)
      \o seg(DOMAIN_PREFIX, domain(c))
      \o seg(PATH_PREFIX, path(c))
      \o (IF is_some(max_age(c))
          THEN MAX_AGE_PREFIX \o format_u64(unwrap(max_age(c))) ELSE << >>)

\* the whole header value in the fixed order, from the accessors
Canonical(c) ==
    CanonicalHead(c)
      \o flag(SECURE_ATTR, secure(c))
      \o flag(HTTPONLY_ATTR, httponly(c))
      \o (IF is_some(expires(c))
          THEN EXPIRES_PREFIX \o rfc822(to_utc(unwrap(expires(c)))) ELSE << >>)

\* what every accessor gives
AccessorView(c) ==
    [as_str |-> as_str(c), name |-> name(c), value |-> value(c),
     domain |-> domain(c), path |-> path(c), max_age |-> max_age(c),
     max_age_str |-> max_age_str(c), secure |-> secure(c),
     httponly |-> httponly(c), expires |-> expires(c),
     expires_str |-> expires_str(c), panicked |-> c.panicked]

\* C1: after new and any sequence of setter calls, as_str() is exactly
\* name=value followed by the Domain, Path, Max-Age, Secure, HttpOnly and
\* Expires segments of the attributes the accessors report present, in that
\* order, none missing or duplicated.
C1_SerializationIsCanonical ==
    Live => as_str(cookie) = Canonical(cookie)

\* C2: in every reachable state name(), value(), domain(), path() and
\* max_age_str() give the (trimmed) text last written to their own field,
\* and name_end, value_end, domain_end, path_end and the Max-Age end each
\* point immediately after their own segment of the current buffer.
C2_AccessorsReturnLastWritten ==
    Live =>
      LET ne == Len(written.name)
          ve == ne + Len(EQ_SIGN) + Len(written.value)
          de == IF is_some(written.domain)
                THEN ve + Len(DOMAIN_PREFIX) + Len(unwrap(written.domain)) ELSE ve
          pe == IF is_some(written.path)
                THEN de + Len(PATH_PREFIX) + Len(unwrap(written.path)) ELSE de
          age_text == IF is_some(written.max_age)
                      THEN Some(format_u64(unwrap(written.max_age))) ELSE None
          me == IF is_some(age_text)
                THEN pe + Len(MAX_AGE_PREFIX) + Len(unwrap(age_text)) ELSE pe
      IN  /\ name(cookie) = written.name
          /\ value(cookie) = written.value
          /\ domain(cookie) = written.domain
          /\ path(cookie) = written.path
          /\ max_age_str(cookie) = age_text
          /\ cookie.name_end = ne
          /\ cookie.value_end = ve
          /\ cookie.domain_end = (IF is_some(written.domain) THEN Some(de) ELSE None)
          /\ cookie.path_end = (IF is_some(written.path) THEN Some(pe) ELSE None)
          /\ is_some(cookie.max_age) = is_some(written.max_age)
          /\ max_age_end_or_prior(cookie) = me
          /\ slice(cookie, 0, me)
               = written.name \o EQ_SIGN \o written.value
                   \o seg(DOMAIN_PREFIX, written.domain)
                   \o seg(PATH_PREFIX, written.path)
                   \o seg(MAX_AGE_PREFIX, age_text)

\* Domain, Path and Max-Age are all present behind an empty name, with
\* Secure and Expires set; writing a two-character name moves the three
\* offsets two bytes to the right and each accessor still reads its own text.
C2_Witness ==
    /\ Live
    /\ written.name = << >>
    /\ written.value = <<"n","m">>
    /\ domain(cookie) = Some(<<"b","c">>)
    /\ path(cookie) = Some(<<"a">>)
    /\ max_age_str(cookie) = Some(<<"1","4">>)
    /\ cookie.secure
    /\ is_some(cookie.expires)
    /\ LET d == set_name(cookie, <<"n","m">>)
       IN  /\ d.domain_end = Some(unwrap(cookie.domain_end) + 2)
           /\ d.path_end = Some(unwrap(cookie.path_end) + 2)
           /\ max_age_end_or_prior(d) = max_age_end_or_prior(cookie) + 2
           /\ domain(d) = domain(cookie)
           /\ path(d) = path(cookie)
           /\ max_age_str(d) = max_age_str(cookie)

\* C4: when Max-Age is present with value m, set_max_age(n) with n non-zero
\* and n # m replaces only the digits: the bytes after the Max-Age segment,
\* and secure(), httponly() and expires_str(), are the same before and after.
C4_MaxAgeReplaceKeepsSuffix ==
    (Live /\ is_some(cookie.max_age)) =>
      \A n \in Ages \ {0, unwrap(max_age(cookie))} :
        LET d == set_max_age(cookie, n)
        IN  /\ ~d.panicked
            /\ max_age_str(d) = Some(format_u64(n))
            /\ slice_from(d, max_age_end_or_prior(d))
                 = slice_from(cookie, max_age_end_or_prior(cookie))
            /\ secure(d) = secure(cookie)
            /\ httponly(d) = httponly(cookie)
            /\ expires_str(d) = expires_str(cookie)

\* C9: set_max_age(0) on a cookie whose Max-Age is present cuts exactly the
\* '; Max-Age=<digits>' segment out of the buffer: max_age() and
\* max_age_str() are absent afterwards and everything before and after the
\* segment is kept.
C9_MaxAgeZeroRemovesSegment ==
    (Live /\ is_some(cookie.max_age)) =>
      LET d      == set_max_age(cookie, 0)
          before == slice(cookie, 0, path_end_or_prior(cookie))
          after  == slice_from(cookie, max_age_end_or_prior(cookie))
          digits == format_u64(unwrap(max_age(cookie)))
      IN  /\ ~d.panicked
          /\ as_str(cookie) = before \o MAX_AGE_PREFIX \o digits \o after
          /\ as_str(d) = before \o after
          /\ max_age(d) = None
          /\ max_age_str(d) = None
          /\ name(d) = name(cookie) /\ value(d) = value(cookie)
          /\ domain(d) = domain(cookie) /\ path(d) = path(cookie)
          /\ secure(d) = secure(cookie) /\ httponly(d) = httponly(cookie)
          /\ expires(d) = expires(cookie)

\* Max-Age sits between a Path and the Secure token and an Expires text,
\* and set_max_age(0) takes it out.
C9_Witness ==
    /\ Live
    /\ is_some(cookie.path_end)
    /\ max_age(cookie) = Some(14)
    /\ as_str(cookie) = Canonical(cookie)
    /\ cookie.secure
    /\ is_some(cookie.expires)
    /\ is_none(max_age(set_max_age(cookie, 0)))
    /\ Len(as_str(set_max_age(cookie, 0))) = Len(as_str(cookie)) - 12

\* the attribute a call writes
Attr(call) == IF call.op = "expire" THEN "set_expires" ELSE call.op

AttrCalls == { call \in Calls : call.op \notin {"set_name", "set_value"} }

\* a call made after a panic never happens
ApplyNext(call, c) == IF c.panicked THEN c ELSE Apply(call, c)

\* C3: two setter calls on different attributes among Domain, Path, Max-Age,
\* Secure, HttpOnly and Expires commute: from any reachable state the
\* serialization and every accessor result are the same whichever of the two
\* is applied first.
C3_SettersCommute ==
    Live =>
      \A a \in AttrCalls, b \in AttrCalls :
        Attr(a) # Attr(b) =>
          AccessorView(ApplyNext(b, Apply(a, cookie)))
            = AccessorView(ApplyNext(a, Apply(b, cookie)))

\* C5: set_secure(b) and set_httponly(b) insert or remove exactly their own
\* token at its fixed position: the buffer before the token and everything
\* after it (the other flag's token, a trailing Expires text) stay
\* byte-identical, and the other flag and Expires read as before.
C5_FlagToggleFrame ==
    Live =>
      \A b \in BOOLEAN :
        /\ LET d    == set_secure(cookie, b)
               head == slice(cookie, 0, max_age_end_or_prior(cookie))
               tail == slice_from(cookie, secure_end_or_prior(cookie))
           IN  /\ ~d.panicked
               /\ secure(d) = b
               /\ as_str(d) = head \o flag(SECURE_ATTR, b) \o tail
               /\ tail = flag(HTTPONLY_ATTR, httponly(cookie))
                           \o seg(EXPIRES_PREFIX, expires_str(cookie))
               /\ httponly(d) = httponly(cookie)
               /\ expires_str(d) = expires_str(cookie)
        /\ LET d    == set_httponly(cookie, b)
               head == slice(cookie, 0, secure_end_or_prior(cookie))
               tail == slice_from(cookie, httponly_end_or_prior(cookie))
           IN  /\ ~d.panicked
               /\ httponly(d) = b
               /\ as_str(d) = head \o flag(HTTPONLY_ATTR, b) \o tail
               /\ tail = seg(EXPIRES_PREFIX, expires_str(cookie))
               /\ secure(d) = secure(cookie)
               /\ expires_str(d) = expires_str(cookie)

\* what the accessors of the attributes after name and value give
LaterAttrs(c) ==
    <<domain(c), path(c), max_age(c), max_age_str(c), secure(c), httponly(c),
      expires(c), expires_str(c)>>

\* C6: set_name(x) makes the buffer trim(x) followed by the old buffer from
\* the old name_end on; set_value(x) makes it the old buffer up to and
\* including '=', then trim(x), then the old buffer from the old value_end
\* on; after either, domain(), path(), max_age(), secure(), httponly() and
\* expires_str() behave as before the call.
C6_NameValueFrame ==
    Live =>
      \A x \in NameTexts :
        /\ LET d == set_name(cookie, x)
           IN  /\ ~d.panicked
               /\ as_str(d) = trim(x) \o slice_from(cookie, cookie.name_end)
               /\ name(d) = trim(x)
               /\ value(d) = value(cookie)
               /\ LaterAttrs(d) = LaterAttrs(cookie)
        /\ LET d == set_value(cookie, x)
           IN  /\ ~d.panicked
               /\ as_str(d) = name(cookie) \o EQ_SIGN \o trim(x)
                                \o slice_from(cookie, cookie.value_end)
               /\ name(d) = name(cookie)
               /\ value(d) = trim(x)
               /\ LaterAttrs(d) = LaterAttrs(cookie)

\* every attribute is present behind a two-character name and value, and
\* emptying either one moves them all two bytes to the left
C6_Witness ==
    /\ Live
    /\ as_str(cookie) = Canonical(cookie)
    /\ name(cookie) = <<"n","m">> /\ value(cookie) = <<"n","m">>
    /\ is_some(domain(cookie)) /\ is_some(path(cookie)) /\ is_some(max_age(cookie))
    /\ secure(cookie) /\ httponly(cookie) /\ is_some(expires(cookie))
    /\ set_name(cookie, << >>).path_end = Some(unwrap(cookie.path_end) - 2)
    /\ set_value(cookie, <<" ">>).path_end = Some(unwrap(cookie.path_end) - 2)

\* the calls that set an absent attribute, each with the call that clears it
SetAndClear ==
    { <<[op |-> "set_domain", arg |-> x], [op |-> "set_domain", arg |-> e]>> :
        x \in { t \in AttrTexts : trim(t) # << >> },
        e \in { t \in AttrTexts : trim(t) = << >> } }
      \cup
    { <<[op |-> "set_path", arg |-> x], [op |-> "set_path", arg |-> e]>> :
        x \in { t \in AttrTexts : trim(t) # << >> },
        e \in { t \in AttrTexts : trim(t) = << >> } }
      \cup
    { <<[op |-> "set_max_age", arg |-> n], [op |-> "set_max_age", arg |-> 0]>> :
        n \in Ages \ {0} }
      \cup
    { <<[op |-> "set_secure", arg |-> TRUE], [op |-> "set_secure", arg |-> FALSE]>>,
      <<[op |-> "set_httponly", arg |-> TRUE], [op |-> "set_httponly", arg |-> FALSE]>>,
      <<[op |-> "expire", arg |-> None], [op |-> "set_expires", arg |-> None]>> }
      \cup
    { <<[op |-> "set_expires", arg |-> Some(tm)], [op |-> "set_expires", arg |-> None]>> :
        tm \in Tms }

Absent(op, c) ==
    CASE op = "set_domain"   -> is_none(domain(c))
      [] op = "set_path"     -> is_none(path(c))
      [] op = "set_max_age"  -> is_none(max_age(c))
      [] op = "set_secure"   -> ~secure(c)
      [] op = "set_httponly" -> ~httponly(c)
      [] op = "set_expires"  -> is_none(expires(c))
      [] op = "expire"       -> is_none(expires(c))

\* C7: in any reachable state where an attribute is absent, setting it and
\* then clearing it (empty text, 0, false, None) returns as_str() to exactly
\* the string it was before, whatever other attributes are present.
C7_SetThenClearRestores ==
    Live =>
      \A sc \in SetAndClear :
        Absent(sc[1].op, cookie) =>
          LET d == ApplyNext(sc[2], Apply(sc[1], cookie))
          IN  ~d.panicked /\ as_str(d) = as_str(cookie)

\* the argument as the setter stores it: trimmed text, UTC instant
Normal(call) ==
    IF call.op \in {"set_name", "set_value", "set_domain", "set_path"}
    THEN trim(call.arg)
    ELSE IF call.op = "set_expires" /\ is_some(call.arg)
    THEN Some(to_utc(unwrap(call.arg)))
    ELSE call.arg

\* C8: calling the same setter twice in a row with arguments that are equal
\* after trimming / UTC normalization leaves as_str() after the second call
\* byte-identical to as_str() after the first.
C8_SettersIdempotent ==
    Live =>
      \A a \in Calls, b \in Calls :
        (a.op = b.op /\ Normal(a) = Normal(b)) =>
          LET d == Apply(a, cookie)
          IN  ~d.panicked =>
                /\ ~Apply(b, d).panicked
                /\ as_str(Apply(b, d)) = as_str(d)

\* the stored offsets
Offsets(c) == <<c.name_end, c.value_end, c.domain_end, c.path_end, c.max_age>>

\* C10: set_expires(Some(t)) leaves the buffer up to the end of the segment
\* before Expires unchanged and makes the rest exactly '; Expires=' and the
\* codec text of t; set_expires(None) truncates the buffer to the end of
\* that segment; no stored offset and no other accessor result changes, and
\* expires_str() gives the codec text of the instant set.
C10_ExpiresFrame ==
    Live =>
      \A e \in OptTms \cup {Some(EARLIEST_TM)} :
        LET d    == set_expires(cookie, e)
            head == slice(cookie, 0, httponly_end_or_prior(cookie))
        IN  /\ ~d.panicked
            /\ Offsets(d) = Offsets(cookie)
            /\ name(d) = name(cookie) /\ value(d) = value(cookie)
            /\ domain(d) = domain(cookie) /\ path(d) = path(cookie)
            /\ max_age(d) = max_age(cookie) /\ max_age_str(d) = max_age_str(cookie)
            /\ secure(d) = secure(cookie) /\ httponly(d) = httponly(cookie)
            /\ IF is_some(e)
               THEN /\ as_str(d) = head \o EXPIRES_PREFIX \o rfc822(to_utc(unwrap(e)))
                    /\ expires_str(d) = Some(rfc822(to_utc(unwrap(e))))
               ELSE /\ as_str(d) = head
                    /\ expires_str(d) = None

\* C11: the stored Expires instant is UTC-normalized: after
\* set_expires(Some(t)), for a t in UTC or at another offset, expires() is
\* the UTC normalization of t, and a following set_expires(Some(t)) with the
\* same t finds the stored instant equal and returns early.
C11_ExpiresStoredNormalized ==
    Live =>
      \A tm \in Tms \cup {EARLIEST_TM} :
        LET d == set_expires(cookie, Some(tm))
        IN  /\ expires(d) = Some(to_utc(tm))
            /\ set_expires_returns_early(d, Some(tm))

\* the text has a character that is not whitespace
HasText(x) == \E i \in 1..Len(x) : ~IsWs(x[i])

\* C12 as stated: after new and any sequence of set_name / set_value calls
\* with arbitrary text, name() and value() are both non-empty.
C12_NameValueNeverEmpty ==
    Live => (name(cookie) # << >> /\ value(cookie) # << >>)

\* C12 as amended: name() and value() are non-empty exactly when the text
\* last passed to new, set_name or set_value has a non-whitespace character;
\* an empty or whitespace-only text leaves an empty name or value.
C12_NameValueEmptyIffBlank ==
    Live =>
      /\ (name(cookie) # << >>) <=> HasText(written.name)
      /\ (value(cookie) # << >>) <=> HasText(written.value)
      /\ \A n \in NameTexts, v \in NameTexts :
           /\ (name(new(n, v)) # << >>) <=> HasText(n)
           /\ (value(new(n, v)) # << >>) <=> HasText(v)
      /\ \A x \in NameTexts :
           /\ (name(set_name(cookie, x)) # << >>) <=> HasText(x)
           /\ (value(set_name(cookie, x)) # << >>) <=> (value(cookie) # << >>)
           /\ (value(set_value(cookie, x)) # << >>) <=> HasText(x)
           /\ (name(set_value(cookie, x)) # << >>) <=> (name(cookie) # << >>)

\* a cookie with a name, a value and a Domain whose name and value both
\* become empty when a blank text is written to them
C12_Witness ==
    /\ Live
    /\ name(cookie) = <<"n","m">>
    /\ value(cookie) = <<"n","m">>
    /\ is_some(domain(cookie))
    /\ name(set_name(cookie, <<" ">>)) = << >>
    /\ value(set_value(cookie, << >>)) = << >>
    /\ as_str(set_value(set_name(cookie, <<" ">>), << >>))
         = EQ_SIGN \o slice_from(cookie, cookie.value_end)

\* C13: expire() in any reachable state is set_expires(Some(EARLIEST_TM)):
\* afterwards as_str() is the previous serialization without any earlier
\* Expires segment, followed by '; Expires=' and the codec text of
\* 1900-01-01T00:00:00 UTC, after every other present attribute.
C13_ExpireAppendsEarliest ==
    Live =>
      LET d == expire(cookie)
      IN  /\ ~d.panicked
          /\ d = set_expires(cookie, Some(EARLIEST_TM))
          /\ expires(d) = Some(EARLIEST_TM)
          /\ as_str(d) = CanonicalHead(cookie)
                           \o flag(SECURE_ATTR, secure(cookie))
                           \o flag(HTTPONLY_ATTR, httponly(cookie))
                           \o EXPIRES_PREFIX
                           \o <<"S","u","n",","," ","0","1"," ","J","a","n"," ",
                                "1","9","0","0"," ","0","0",":","0","0",":","0","0",
                                " ","G","M","T">>
          /\ (is_none(expires(cookie)) => as_str(d) = as_str(cookie)
                \o EXPIRES_PREFIX \o rfc822(EARLIEST_TM))

\* t is x without the whitespace before and after it
IsTrimOf(t, x) ==
    /\ \E l \in 0..Len(x), r \in 0..Len(x) : x = Pad(l) \o t \o Pad(r)
    /\ t # << >> => (~IsWs(t[1]) /\ ~IsWs(t[Len(t)]))

\* C14: new(n, v) yields as_str() = trim(n) '=' trim(v) with name() and
\* value() the trimmed texts and every optional attribute absent; set_name,
\* set_value, set_domain and set_path store their argument without its
\* leading and trailing whitespace, and a whitespace-only argument to
\* set_domain / set_path clears the attribute.
C14_ConstructionAndTrimming ==
    Live =>
      /\ \A n \in NameTexts, v \in NameTexts :
           LET c == new(n, v)
           IN  /\ IsTrimOf(name(c), n)
               /\ IsTrimOf(value(c), v)
               /\ as_str(c) = name(c) \o EQ_SIGN \o value(c)
               /\ cookie_pair(c) = <<name(c), value(c)>>
               /\ is_none(domain(c)) /\ is_none(path(c))
               /\ is_none(max_age(c)) /\ is_none(max_age_str(c))
               /\ is_none(expires(c)) /\ is_none(expires_str(c))
               /\ ~secure(c) /\ ~httponly(c)
      /\ \A x \in NameTexts :
           /\ IsTrimOf(name(set_name(cookie, x)), x)
           /\ IsTrimOf(value(set_value(cookie, x)), x)
      /\ \A x \in AttrTexts :
           LET d == set_domain(cookie, x)
               p == set_path(cookie, x)
           IN  /\ ~d.panicked /\ ~p.panicked
               /\ IF HasText(x)
                  THEN /\ is_some(domain(d)) /\ IsTrimOf(unwrap(domain(d)), x)
                       /\ is_some(path(p)) /\ IsTrimOf(unwrap(path(p)), x)
                  ELSE is_none(domain(d)) /\ is_none(path(p))

\* Domain and Path are present; a padded text written to either is stored
\* without its padding, and a blank text clears either
C14_Witness ==
    /\ Live
    /\ domain(cookie) = Some(<<"a">>)
    /\ path(cookie) = Some(<<"a">>)
    /\ is_some(max_age(cookie))
    /\ domain(set_domain(cookie, Pad(MaxPad) \o <<"b","c">> \o Pad(MaxPad)))
         = Some(<<"b","c">>)
    /\ path(set_path(cookie, <<"b","c">> \o Pad(MaxPad))) = Some(<<"b","c">>)
    /\ is_none(domain(set_domain(cookie, Pad(MaxPad))))
    /\ is_none(path(set_path(cookie, Pad(MaxPad))))
    /\ name(set_name(cookie, Pad(MaxPad) \o <<"n","m">>)) = <<"n","m">>

\* no accessor's slice is out of range
AccessorsOk(c) ==
    /\ range_ok(c.serialization, 0, c.name_end)
    /\ range_ok(c.serialization, value_start(c), c.value_end)
    /\ is_some(c.domain_end) =>
         range_ok(c.serialization, unwrap(domain_value_start(c)), unwrap(c.domain_end))
    /\ is_some(c.path_end) =>
         range_ok(c.serialization, unwrap(path_value_start(c)), unwrap(c.path_end))
    /\ is_some(c.max_age) =>
         range_ok(c.serialization, unwrap(max_age_value_start(c)), unwrap(c.max_age)[2])
    /\ is_some(c.expires) =>
         unwrap(expires_value_start(c)) <= Len(c.serialization)

\* C15: in every reachable state every further setter or accessor call
\* completes without a panic: every slice, truncate and drain index is
\* inside the buffer and adjust never subtracts a larger old from a smaller
\* stored offset.
C15_NoPanic ==
    /\ ~cookie.panicked
    /\ AccessorsOk(cookie)
    /\ \A call \in Calls : ~Apply(call, cookie).panicked

\* C16: in every reachable state name_end + 1 <= value_end <=
\* domain_end_or_prior() <= path_end_or_prior() <= max_age_end_or_prior() <=
\* secure_end_or_prior() <= httponly_end_or_prior() <= length of the buffer,
\* each step equal to its predecessor exactly when that attribute is absent,
\* and httponly_end_or_prior() equal to the buffer length exactly when
\* Expires is absent.
C16_BoundaryChain ==
    Live =>
      /\ cookie.name_end + 1 <= cookie.value_end
      /\ cookie.value_end <= domain_end_or_prior(cookie)
      /\ domain_end_or_prior(cookie) <= path_end_or_prior(cookie)
      /\ path_end_or_prior(cookie) <= max_age_end_or_prior(cookie)
      /\ max_age_end_or_prior(cookie) <= secure_end_or_prior(cookie)
      /\ secure_end_or_prior(cookie) <= httponly_end_or_prior(cookie)
      /\ httponly_end_or_prior(cookie) <= Len(cookie.serialization)
      /\ (domain_end_or_prior(cookie) = cookie.value_end) <=> is_none(domain(cookie))
      /\ (path_end_or_prior(cookie) = domain_end_or_prior(cookie))
           <=> is_none(path(cookie))
      /\ (max_age_end_or_prior(cookie) = path_end_or_prior(cookie))
           <=> is_none(max_age(cookie))
      /\ (secure_end_or_prior(cookie) = max_age_end_or_prior(cookie))
           <=> ~secure(cookie)
      /\ (httponly_end_or_prior(cookie) = secure_end_or_prior(cookie))
           <=> ~httponly(cookie)
      /\ (httponly_end_or_prior(cookie) = Len(cookie.serialization))
           <=> is_none(expires(cookie))

\* the calls that clear an attribute
ClearCalls ==
    { call \in Calls :
        \/ call.op \in {"set_domain", "set_path"} /\ ~HasText(call.arg)
        \/ call.op = "set_max_age" /\ call.arg = 0
        \/ call.op \in {"set_secure", "set_httponly"} /\ call.arg = FALSE
        \/ call.op = "set_expires" /\ is_none(call.arg) }

\* C17: in any reachable state where the attribute is absent, set_domain or
\* set_path with an empty or whitespace-only text, set_max_age(0),
\* set_secure(false), set_httponly(false) and set_expires(None) leave the
\* buffer and every stored field unchanged.
C17_ClearAbsentIsNoOp ==
    Live =>
      \A call \in ClearCalls :
        Absent(call.op, cookie) => Apply(call, cookie) = cookie

\* Path and HttpOnly are present, the other four attributes are absent, and
\* each of their clearing calls gives back the same cookie
C17_Witness ==
    /\ Live
    /\ is_some(path(cookie)) /\ httponly(cookie)
    /\ is_none(domain(cookie)) /\ is_none(max_age(cookie))
    /\ ~secure(cookie) /\ is_none(expires(cookie))
    /\ set_domain(cookie, Pad(MaxPad)) = cookie
    /\ set_max_age(cookie, 0) = cookie
    /\ set_secure(cookie, FALSE) = cookie
    /\ set_expires(cookie, None) = cookie

\* the end of the segment before the attribute the call writes, and the
\* stored offsets of the segments before it
PrecedingEnd(op, c) ==
    CASE op = "set_domain"   -> c.value_end
      [] op = "set_path"     -> domain_end_or_prior(c)
      [] op = "set_max_age"  -> path_end_or_prior(c)
      [] op = "set_secure"   -> max_age_end_or_prior(c)
      [] op = "set_httponly" -> secure_end_or_prior(c)
      [] op = "set_expires"  -> httponly_end_or_prior(c)
      [] op = "expire"       -> httponly_end_or_prior(c)

PrecedingOffsets(op, c) ==
    CASE op = "set_domain"   -> <<c.name_end, c.value_end>>
      [] op = "set_path"     -> <<c.name_end, c.value_end, c.domain_end>>
      [] op = "set_max_age"  -> <<c.name_end, c.value_end, c.domain_end, c.path_end>>
      [] OTHER               -> <<c.name_end, c.value_end, c.domain_end, c.path_end,
                                  c.max_age>>

\* the first n bytes of the buffer, or all of it when it is shorter
Prefix(c, n) ==
    SubSeq(c.serialization, 1, IF n <= Len(c.serialization) THEN n
                               ELSE Len(c.serialization))

\* C18: for set_domain, set_path, set_max_age, set_secure, set_httponly and
\* set_expires, the stored offsets of all segments before the modified
\* attribute, and the buffer bytes from 0 up to the end of the segment
\* immediately before it, are the same before and after the call (where
\* that end lies behind the end of the buffer, every byte of the buffer is).
C18_EditKeepsWhatPrecedes ==
    Live =>
      \A call \in AttrCalls :
        LET d  == Apply(call, cookie)
            pe == PrecedingEnd(call.op, cookie)
        IN  /\ PrecedingOffsets(call.op, d) = PrecedingOffsets(call.op, cookie)
            /\ PrecedingEnd(call.op, d) = pe
            /\ Prefix(d, Len(Prefix(cookie, pe))) = Prefix(cookie, pe)
            /\ name(d) = name(cookie) /\ value(d) = value(cookie)

\* every attribute is present, and inserting, replacing or removing any one
\* of them changes the buffer only behind the segment before it
C18_Witness ==
    /\ Live
    /\ as_str(cookie) = Canonical(cookie)
    /\ is_some(domain(cookie)) /\ is_none(path(cookie)) /\ is_some(max_age(cookie))
    /\ secure(cookie) /\ httponly(cookie) /\ is_some(expires(cookie))
    /\ LET d == set_path(cookie, <<"b","c">>)
       IN  /\ as_str(d) # as_str(cookie)
           /\ d.domain_end = cookie.domain_end
           /\ Prefix(d, domain_end_or_prior(cookie))
                = Prefix(cookie, domain_end_or_prior(cookie))
    /\ LET d == set_secure(cookie, FALSE)
       IN  /\ as_str(d) # as_str(cookie)
           /\ d.max_age = cookie.max_age
           /\ Prefix(d, max_age_end_or_prior(cookie))
                = Prefix(cookie, max_age_end_or_prior(cookie))

\* the number a decimal text denotes, read digit by digit
DigitValue(ch) == CHOOSE d \in 0..9 : DigitChar(d) = ch

IsDigit(ch) == \E d \in 0..9 : DigitChar(d) = ch

RECURSIVE ParseDecimal(_)
ParseDecimal(t) ==
    IF t = <<>> THEN 0
    ELSE 10 * ParseDecimal(SubSeq(t, 1, Len(t) - 1)) + DigitValue(t[Len(t)])

\* t is the unsigned decimal text of v, without leading zeros
IsDecimalOf(t, v) ==
    /\ t # <<>>
    /\ \A i \in 1..Len(t) : IsDigit(t[i])
    /\ t[1] # "0"
    /\ ParseDecimal(t) = v

\* C19: in every reachable state the stored max_age is None or Some((v, end))
\* with v > 0, and when present max_age_str() is the unsigned decimal text of
\* max_age() without leading zeros, with "; Max-Age=" right before it in the
\* buffer, whatever was inserted, resized or removed in front of it.
C19_MaxAgeTextMatchesNumber ==
    is_some(cookie.max_age) =>
      LET v     == unwrap(max_age(cookie))
          start == unwrap(max_age_value_start(cookie))
          str   == max_age_str(cookie)
      IN  /\ v > 0
          /\ unwrap(str) # PanicStr
          /\ IsDecimalOf(unwrap(str), v)
          /\ start <= Len(as_str(cookie))
          /\ SubSeq(as_str(cookie), start - Len(MAX_AGE_PREFIX) + 1, start)
               = MAX_AGE_PREFIX

\* Max-Age 14 stands behind a name, a value, a Domain and a Path, and
\* removing the Domain or growing the name moves it without changing it
C19_Witness ==
    /\ Live
    /\ name(cookie) # <<>> /\ value(cookie) # <<>>
    /\ is_some(domain(cookie)) /\ is_some(path(cookie))
    /\ max_age(cookie) = Some(14)
    /\ max_age_str(cookie) = Some(<<"1","4">>)
    /\ LET d == set_domain(cookie, <<>>)
       IN  /\ unwrap(d.max_age)[2] < unwrap(cookie.max_age)[2]
           /\ max_age_str(d) = Some(<<"1","4">>)
    /\ LET d == set_name(cookie, <<>>)
       IN  /\ unwrap(d.max_age)[2] < unwrap(cookie.max_age)[2]
           /\ max_age_str(d) = Some(<<"1","4">>)

====
